---- MODULE Spec2Model ----
(***************************************************************************)
(* vectorClass<int> of vectorImplementation.cpp: a hand-rolled growable    *)
(* array.  One object is modelled together with the heap buffers it        *)
(* allocates; every public member function is one atomic action.           *)
(***************************************************************************)
EXTENDS Integers, Sequences, FiniteSets, TLC

\* ---------------------------------------------------------------- bounds
\* push is offered while current < MaxLen
MaxLen == 5
\* pop is offered while current > -MaxUnderflow
MaxUnderflow == 2

\* element values handed to push (two of the values main pushes)
Values == {55, 510}
\* index arguments handed to get and push(data, index)
Indices == (-1 .. MaxLen) \cup {10}

\* content of a slot of `new T[n]` that was never assigned (no element
\* value is 0)
Uninit == 0
\* a void return; a returned value v is <<v>>
NoRet == <<>>

VARIABLES
    arr,        \* T *arr: the id of the buffer the object points to
    capacity,   \* int capacity
    current,    \* int current
    mem,        \* heap: live buffer id -> [0 .. n-1 -> slot content]
    frees,      \* heap: every id ever returned by new[] -> times delete[]d
    status,     \* "alive", "destroyed" (destructor ran) or "crashed"
    corrupt,    \* TRUE once a store landed outside the buffer
    appended,   \* values pushed so far, tracked while only push was used
    pure,       \* TRUE while no push(data,index) and no pop has been called
    lastOp,     \* the member function called last
    lastData,   \* its data argument (0 when it has none)
    lastIdx,    \* its index argument (0 when it has none)
    lastRet,    \* <<its return value>>, <<>> when it returns nothing
    outcome,    \* "ok", "bad_alloc" (new[] threw) or "crash"
    out,        \* what it wrote to cout (sequence of slot contents)
    touched,    \* the buffer indices it read
    copied,     \* number of slots its growth step copied
    grew,       \* TRUE iff it ran the growth step to completion
    stored,     \* the buffer indices it stored to through arr[...] = data
    totalCopied,\* slots copied by all growth steps, while only push was used
    pre         \* the object and heap as they were when it was called

vars == <<arr, capacity, current, mem, frees, status, corrupt, appended, pure,
          lastOp, lastData, lastIdx, lastRet, outcome, out, touched, copied,
          grew, stored, totalCopied, pre>>

\* the object and its heap as one record
Me == [arr |-> arr, capacity |-> capacity, current |-> current,
       mem |-> mem, frees |-> frees, status |-> status, corrupt |-> corrupt]

\* the slots of the buffer the object points to
Buf(s) == s.mem[s.arr]

\* new T[n]: a fresh buffer id and n unassigned slots
NewId(s) == Cardinality(DOMAIN s.frees)
NewArray(n) == [i \in 0 .. n - 1 |-> Uninit]

\* a constructor that starts with no slots: new T[0], capacity 0
ConstructEmpty ==
    [arr |-> 0, capacity |-> 0, current |-> 0,
     mem |-> (0 :> NewArray(0)), frees |-> (0 :> 0),
     status |-> "alive", corrupt |-> FALSE]

\* ---------------------------------------------------------- constructor
Construct ==
    [arr |-> 0, capacity |-> 1, current |-> 0,
     mem |-> (0 :> NewArray(1)), frees |-> (0 :> 0),
     status |-> "alive", corrupt |-> FALSE]

\* ------------------------------------------------------------ push(data)
\* a growth step that adds one slot instead of doubling
GrowStepPlusOne(s) ==
    LET tmep == NewId(s)
        old  == Buf(s)
        new  == [i \in 0 .. s.capacity |->
                    IF i < s.capacity THEN old[i] ELSE Uninit]
    IN  [s EXCEPT !.mem = (tmep :> new),
                  !.frees = (tmep :> 0) @@ [s.frees EXCEPT ![s.arr] = @ + 1],
                  !.capacity = s.capacity + 1,
                  !.arr = tmep]

\* a growth step whose copy loop stops one slot early
GrowStepShortCopy(s) ==
    LET tmep == NewId(s)
        old  == Buf(s)
        new  == [i \in 0 .. 2 * s.capacity - 1 |->
                    IF i < s.capacity - 1 THEN old[i] ELSE Uninit]
    IN  [s EXCEPT !.mem = (tmep :> new),
                  !.frees = (tmep :> 0) @@ [s.frees EXCEPT ![s.arr] = @ + 1],
                  !.capacity = s.capacity * 2,
                  !.arr = tmep]

\* a growth step that forgets `delete[] arr`
GrowStepLeak(s) ==
    LET tmep == NewId(s)
        old  == Buf(s)
        new  == [i \in 0 .. 2 * s.capacity - 1 |->
                    IF i < s.capacity THEN old[i] ELSE Uninit]
    IN  [s EXCEPT !.mem = (tmep :> new) @@ s.mem,
                  !.frees = (tmep :> 0) @@ s.frees,
                  !.capacity = s.capacity * 2,
                  !.arr = tmep]

\* the growth step, lines 27-32: allocate 2*capacity, copy capacity slots,
\* delete[] the old buffer, adopt the new one
GrowStep(s) ==
    LET tmep == NewId(s)
        old  == Buf(s)
        new  == [i \in 0 .. 2 * s.capacity - 1 |->
                    IF i < s.capacity THEN old[i] ELSE Uninit]
    IN  [s EXCEPT !.mem = (tmep :> new),
                  !.frees = (tmep :> 0) @@ [s.frees EXCEPT ![s.arr] = @ + 1],
                  !.capacity = s.capacity * 2,
                  !.arr = tmep]

\* lines 34-35: arr[current] = data; current++.  A store outside the buffer
\* is undefined: the build either faults or writes next to the buffer.
StoreStep(s, data) ==
    IF s.current \in DOMAIN Buf(s)
    THEN {[s |-> [s EXCEPT !.mem[s.arr][s.current] = data,
                           !.current = s.current + 1],
           outcome |-> "ok", stored |-> <<s.current>>]}
    ELSE {[s |-> [s EXCEPT !.status = "crashed"], outcome |-> "crash",
           stored |-> <<s.current>>],
          [s |-> [s EXCEPT !.corrupt = TRUE, !.current = s.current + 1],
           outcome |-> "ok", stored |-> <<s.current>>]}

\* push with `capacity = capacity * 2` moved in front of the allocation, so
\* that a failed allocation leaves the doubled capacity behind
PushOutcomesTorn(s, data) ==
    IF s.capacity = s.current
    THEN {[s |-> [s EXCEPT !.capacity = s.capacity * 2],
           outcome |-> "bad_alloc", copied |-> 0, grew |-> FALSE,
           stored |-> <<>>]}
         \cup {[s |-> r.s, outcome |-> r.outcome, copied |-> s.capacity,
                grew |-> TRUE, stored |-> r.stored] :
                  r \in StoreStep(GrowStep(s), data)}
    ELSE {[s |-> r.s, outcome |-> r.outcome, copied |-> 0, grew |-> FALSE,
           stored |-> r.stored] : r \in StoreStep(s, data)}

\* push that grows one element early: `if (capacity <= current + 1)`
PushOutcomesGrowEarly(s, data) ==
    IF s.capacity <= s.current + 1
    THEN {[s |-> s, outcome |-> "bad_alloc", copied |-> 0, grew |-> FALSE,
           stored |-> <<>>]}
         \cup {[s |-> r.s, outcome |-> r.outcome, copied |-> s.capacity,
                grew |-> TRUE, stored |-> r.stored] :
                  r \in StoreStep(GrowStep(s), data)}
    ELSE {[s |-> r.s, outcome |-> r.outcome, copied |-> 0, grew |-> FALSE,
           stored |-> r.stored] : r \in StoreStep(s, data)}

\* every way push(data) can end when called in s
PushOutcomes(s, data) ==
    IF s.capacity = s.current
    THEN {[s |-> s, outcome |-> "bad_alloc", copied |-> 0, grew |-> FALSE,
           stored |-> <<>>]}
         \cup {[s |-> r.s, outcome |-> r.outcome, copied |-> s.capacity,
                grew |-> TRUE, stored |-> r.stored] :
                  r \in StoreStep(GrowStep(s), data)}
    ELSE {[s |-> r.s, outcome |-> r.outcome, copied |-> 0, grew |-> FALSE,
           stored |-> r.stored] : r \in StoreStep(s, data)}

\* ------------------------------------------------------ push(data, index)
\* a comparison in place of the assignment: `if (index == capacity)`
PushAtTestEquality(index, cap) == [index |-> index, taken |-> index = cap]

\* a bounds test in place of the assignment: `if (index >= capacity)`
PushAtTestAtLeast(index, cap) == [index |-> index, taken |-> index >= cap]

\* line 40, `if (index = capacity)`: the assignment gives index the value of
\* capacity and the condition is that value converted to bool
PushAtTest(index, cap) == [index |-> cap, taken |-> cap # 0]

\* line 43: arr[index] = data
OverwriteStep(s, data, index) ==
    IF index \in DOMAIN Buf(s)
    THEN {[s |-> [s EXCEPT !.mem[s.arr][index] = data], outcome |-> "ok",
           copied |-> 0, grew |-> FALSE, stored |-> <<index>>]}
    ELSE {[s |-> [s EXCEPT !.status = "crashed"], outcome |-> "crash",
           copied |-> 0, grew |-> FALSE, stored |-> <<index>>],
          [s |-> [s EXCEPT !.corrupt = TRUE], outcome |-> "ok",
           copied |-> 0, grew |-> FALSE, stored |-> <<index>>]}

PushAtOutcomes(s, data, index) ==
    LET t == PushAtTest(index, s.capacity)
    IN  IF t.taken THEN PushOutcomes(s, data)
        ELSE OverwriteStep(s, data, t.index)

\* a pop that gives back one slot of capacity
PopStepShrink(s, data) ==
    [s EXCEPT !.current = s.current - 1,
              !.capacity = IF s.capacity > 1 THEN s.capacity - 1 ELSE 1]

\* a pop that removes the last element only when it equals data
PopStepMatching(s, data) ==
    IF s.current - 1 \in DOMAIN Buf(s) /\ Buf(s)[s.current - 1] # data
    THEN s
    ELSE [s EXCEPT !.current = s.current - 1]

\* -------------------------------------------------------------- pop(data)
PopStep(s, data) == [s EXCEPT !.current = s.current - 1]

\* a getSize that returns the other field
getSizeOfBuffer(s) == s.capacity

\* ------------------------------------------------- getSize / getCapacity
getSize(s) == s.current
getCapacity(s) == s.capacity

\* what reading a slot yields: an unassigned slot holds any value
ReadVal(x) == IF x = Uninit THEN Values ELSE {x}

\* ------------------------------------------------------------ get(index)
\* lines 67-71: prints arr[index] when index < current; returns -1 on every
\* path.  index < 0 reads in front of the buffer: undefined.
GetOutcomes(s, index) ==
    IF index < s.current
    THEN IF index \in DOMAIN Buf(s)
         THEN {[s |-> s, outcome |-> "ok", ret |-> <<-1>>, out |-> <<v>>,
                touched |-> <<index>>] : v \in ReadVal(Buf(s)[index])}
         ELSE {[s |-> [s EXCEPT !.status = "crashed"], outcome |-> "crash",
                ret |-> NoRet, out |-> <<>>, touched |-> <<index>>]}
               \cup {[s |-> s, outcome |-> "ok", ret |-> <<-1>>, out |-> <<v>>,
                touched |-> <<index>>] : v \in Values}
    ELSE {[s |-> s, outcome |-> "ok", ret |-> <<-1>>, out |-> <<>>,
           touched |-> <<>>]}

\* ----------------------------------------------------------------- print
\* a print loop with `i <= current`
PrintIndicesInclusive(s) ==
    [k \in 1 .. (IF s.current >= 0 THEN s.current + 1 ELSE 0) |-> k - 1]

\* lines 59-62: for (i = 0; i < current; i++) cout << arr[i]
PrintIndices(s) == [k \in 1 .. (IF s.current > 0 THEN s.current ELSE 0) |-> k - 1]

PrintOutcomes(s) ==
    LET idx == PrintIndices(s)
        n   == Len(idx)
    IN  IF \A k \in 1 .. n : idx[k] \in DOMAIN Buf(s)
        THEN {[s |-> s, outcome |-> "ok", out |-> o, touched |-> idx] :
                o \in {q \in [1 .. n -> Values] :
                          \A k \in 1 .. n : q[k] \in ReadVal(Buf(s)[idx[k]])}}
        ELSE {[s |-> [s EXCEPT !.status = "crashed"], outcome |-> "crash",
               out |-> <<>>, touched |-> idx]}
             \cup {[s |-> s, outcome |-> "ok", out |-> q, touched |-> idx] :
                     q \in [1 .. n -> Values]}

\* ------------------------------------------------------------ destructor
\* line 20: delete[] arr.  With the allocator's bookkeeping overwritten the
\* release may fault.
DestroyOutcomes(s) ==
    {[s |-> [s EXCEPT !.status = "destroyed",
                      !.frees[s.arr] = @ + 1,
                      !.mem = [b \in DOMAIN s.mem \ {s.arr} |-> s.mem[b]]],
      outcome |-> "ok"]}
    \cup (IF s.corrupt
          THEN {[s |-> [s EXCEPT !.status = "crashed"], outcome |-> "crash"]}
          ELSE {})

\* =============================================================== actions
SetMe(s) ==
    /\ arr' = s.arr
    /\ capacity' = s.capacity
    /\ current' = s.current
    /\ mem' = s.mem
    /\ frees' = s.frees
    /\ status' = s.status
    /\ corrupt' = s.corrupt

Called(op, data, index) ==
    /\ lastOp' = op
    /\ lastData' = data
    /\ lastIdx' = index
    /\ pre' = Me

Init ==
    /\ arr = Construct.arr
    /\ capacity = Construct.capacity
    /\ current = Construct.current
    /\ mem = Construct.mem
    /\ frees = Construct.frees
    /\ status = Construct.status
    /\ corrupt = Construct.corrupt
    /\ appended = <<>>
    /\ pure = TRUE
    /\ lastOp = "construct"
    /\ lastData = 0
    /\ lastIdx = 0
    /\ lastRet = NoRet
    /\ outcome = "ok"
    /\ out = <<>>
    /\ touched = <<>>
    /\ copied = 0
    /\ stored = <<>>
    /\ totalCopied = 0
    /\ grew = FALSE
    /\ pre = Construct

\* objInt.push(data)
Push ==
    /\ status = "alive"
    /\ current < MaxLen
    /\ \E data \in Values : \E r \in PushOutcomes(Me, data) :
        /\ SetMe(r.s)
        /\ Called("push", data, 0)
        /\ outcome' = r.outcome
        /\ copied' = r.copied
        /\ stored' = r.stored
        /\ grew' = r.grew
        /\ appended' = IF pure /\ r.outcome = "ok"
                       THEN Append(appended, data) ELSE appended
        /\ totalCopied' = IF pure THEN totalCopied + r.copied ELSE 0
    /\ lastRet' = NoRet
    /\ out' = <<>>
    /\ touched' = <<>>
    /\ UNCHANGED pure

\* objInt.push(data, index)
PushAt ==
    /\ status = "alive"
    /\ current < MaxLen
    /\ \E data \in Values, index \in Indices :
       \E r \in PushAtOutcomes(Me, data, index) :
        /\ SetMe(r.s)
        /\ Called("pushAt", data, index)
        /\ outcome' = r.outcome
        /\ copied' = r.copied
        /\ stored' = r.stored
        /\ grew' = r.grew
    /\ lastRet' = NoRet
    /\ out' = <<>>
    /\ touched' = <<>>
    /\ pure' = FALSE
    /\ appended' = <<>>
    /\ totalCopied' = 0

\* objInt.pop(data)
Pop ==
    /\ status = "alive"
    /\ current > -MaxUnderflow
    /\ \E data \in Values :
        /\ SetMe(PopStep(Me, data))
        /\ Called("pop", data, 0)
    /\ outcome' = "ok"
    /\ lastRet' = NoRet
    /\ out' = <<>>
    /\ touched' = <<>>
    /\ copied' = 0
    /\ stored' = <<>>
    /\ grew' = FALSE
    /\ pure' = FALSE
    /\ appended' = <<>>
    /\ totalCopied' = 0

\* objInt.getSize()
GetSize ==
    /\ status = "alive"
    /\ SetMe(Me)
    /\ Called("getSize", 0, 0)
    /\ lastRet' = <<getSize(Me)>>
    /\ outcome' = "ok"
    /\ out' = <<>>
    /\ touched' = <<>>
    /\ copied' = 0
    /\ stored' = <<>>
    /\ grew' = FALSE
    /\ UNCHANGED <<pure, appended, totalCopied>>

\* objInt.getCapacity()
GetCapacity ==
    /\ status = "alive"
    /\ SetMe(Me)
    /\ Called("getCapacity", 0, 0)
    /\ lastRet' = <<getCapacity(Me)>>
    /\ outcome' = "ok"
    /\ out' = <<>>
    /\ touched' = <<>>
    /\ copied' = 0
    /\ stored' = <<>>
    /\ grew' = FALSE
    /\ UNCHANGED <<pure, appended, totalCopied>>

\* objInt.get(index)
Get ==
    /\ status = "alive"
    /\ \E index \in Indices : \E r \in GetOutcomes(Me, index) :
        /\ SetMe(r.s)
        /\ Called("get", 0, index)
        /\ lastRet' = r.ret
        /\ outcome' = r.outcome
        /\ out' = r.out
        /\ touched' = r.touched
    /\ copied' = 0
    /\ stored' = <<>>
    /\ grew' = FALSE
    /\ UNCHANGED <<pure, appended, totalCopied>>

\* objInt.print()
PrintAll ==
    /\ status = "alive"
    /\ \E r \in PrintOutcomes(Me) :
        /\ SetMe(r.s)
        /\ Called("print", 0, 0)
        /\ outcome' = r.outcome
        /\ out' = r.out
        /\ touched' = r.touched
    /\ lastRet' = NoRet
    /\ copied' = 0
    /\ stored' = <<>>
    /\ grew' = FALSE
    /\ UNCHANGED <<pure, appended, totalCopied>>

\* the object goes out of scope
Destroy ==
    /\ status = "alive"
    /\ \E r \in DestroyOutcomes(Me) :
        /\ SetMe(r.s)
        /\ Called("destroy", 0, 0)
        /\ outcome' = r.outcome
    /\ lastRet' = NoRet
    /\ out' = <<>>
    /\ touched' = <<>>
    /\ copied' = 0
    /\ stored' = <<>>
    /\ grew' = FALSE
    /\ UNCHANGED <<pure, appended, totalCopied>>

Next ==
    \/ Push
    \/ PushAt
    \/ Pop
    \/ GetSize
    \/ GetCapacity
    \/ Get
    \/ PrintAll
    \/ Destroy

Spec == Init /\ [][Next]_vars

TypeOK ==
    /\ status \in {"alive", "destroyed", "crashed"}
    /\ capacity \in 1 .. 2 * MaxLen
    /\ current \in -MaxUnderflow .. MaxLen
    /\ outcome \in {"ok", "bad_alloc", "crash"}

\* ================================================================ claims
\* the smallest power of two >= n, reached by doubling from 1
RECURSIVE DoubleUpTo(_, _)
DoubleUpTo(k, n) == IF k >= n THEN k ELSE DoubleUpTo(2 * k, n)
SmallestPow2(n) == DoubleUpTo(1, n)

\* the last call was get/push(data,index) and it returned or faulted
\* (it did not end in a failed allocation)
Returned == outcome # "bad_alloc"

\* C1: whenever a public operation has returned, 0 <= getSize() and
\* getSize() <= getCapacity().
C1_SizeWithinCapacity ==
    status = "alive" => 0 <= getSize(Me) /\ getSize(Me) <= getCapacity(Me)

\* C2: after only appends to a fresh container, get(i) for 0 <= i < N returns
\* the i-th appended value.
C2_GetReturnsAppended ==
    (lastOp = "get" /\ pure /\ outcome = "ok"
        /\ lastIdx \in 0 .. Len(appended) - 1)
    => lastRet = <<appended[lastIdx + 1]>>

\* C3: after N >= 1 appends and no removal, the capacity is the smallest
\* power of two >= N.
C3_CapacityIsSmallestPow2 ==
    (pure /\ status = "alive" /\ Len(appended) >= 1)
    => getCapacity(Me) = SmallestPow2(Len(appended))

\* C3 witness: five appends, nothing else, the capacity is 8.
C3_Witness ==
    pure /\ status = "alive" /\ Len(appended) = 5 /\ capacity = 8

\* C4: a growth step leaves every element that was present at the same index
\* with the same value, in the new buffer.
C4_GrowthKeepsElements ==
    grew => /\ arr # pre.arr
            /\ \A i \in 0 .. pre.current - 1 :
                  i \in DOMAIN Buf(Me) /\ Buf(Me)[i] = Buf(pre)[i]

\* C4 witness: a growth step from a full buffer of four holding both values.
C4_Witness ==
    /\ grew
    /\ pre.current = 4
    /\ Buf(pre)[0] = 55
    /\ Buf(pre)[3] = 510
    /\ capacity = 8

\* C5: push(data) that is not cut short by a failed allocation increases the
\* length by one, stores data at the old length and leaves the slots below
\* the old length as they were.
C5_AppendPostcondition ==
    (lastOp = "push" /\ Returned)
    => /\ outcome = "ok"
       /\ current = pre.current + 1
       /\ pre.current \in DOMAIN Buf(Me)
       /\ Buf(Me)[pre.current] = lastData
       /\ \A i \in DOMAIN Buf(pre) :
             i < pre.current => i \in DOMAIN Buf(Me) /\ Buf(Me)[i] = Buf(pre)[i]

\* C6: get(index) with index < 0 or index >= size() ends in an OutOfRange
\* outcome that no in-range get produces, and leaves the container unchanged.
C6_GetOutOfRangeFails ==
    (lastOp = "get" /\ (lastIdx < 0 \/ lastIdx >= getSize(pre)))
    => /\ outcome = "OutOfRange"
       /\ \A j \in 0 .. getSize(pre) - 1 : \A r \in GetOutcomes(pre, j) :
             <<r.ret, r.outcome>> # <<lastRet, outcome>>
       /\ Me = pre

\* C7: pop on a container of length 0 changes nothing, and no pop makes the
\* length negative.
C7_PopOnEmptyIsNoOp ==
    lastOp = "pop" => /\ getSize(pre) = 0 => Me = pre
                      /\ getSize(Me) >= 0

\* C8: push(data, index) with index equal to the current length ends exactly
\* as push(data) called in the same state can end.
C8_AppendAtLengthIsAppend ==
    (lastOp = "pushAt" /\ lastIdx = pre.current)
    => \E r \in PushOutcomes(pre, lastData) :
          /\ r.s = Me
          /\ r.outcome = outcome
          /\ r.grew = grew
          /\ r.copied = copied

\* C8 witness: push(data, 2) on a full buffer of two ran the growth step and
\* stored data at index 2.
C8_Witness ==
    /\ lastOp = "pushAt"
    /\ lastIdx = pre.current
    /\ pre.current = 2
    /\ pre.capacity = 2
    /\ grew
    /\ capacity = 4
    /\ current = 3
    /\ Buf(Me)[2] = lastData

\* C9: push(data, index) with 0 <= index < length overwrites slot index and
\* changes nothing else.
C9_AppendAtOverwrites ==
    (lastOp = "pushAt" /\ Returned /\ 0 <= lastIdx /\ lastIdx < pre.current)
    => /\ current = pre.current
       /\ capacity = pre.capacity
       /\ Buf(Me) = [Buf(pre) EXCEPT ![lastIdx] = lastData]

\* C10: push(data, index) with index < 0 or index > length ends in an
\* OutOfRange outcome and leaves the container unchanged.
C10_AppendAtOutOfRangeFails ==
    (lastOp = "pushAt" /\ Returned /\ (lastIdx < 0 \/ lastIdx > pre.current))
    => /\ outcome = "OutOfRange"
       /\ Me = pre

\* the last call ran push(data), directly or from line 41 of push(data, index)
RanPush == lastOp \in {"push", "pushAt"}

\* C11: when the allocation of the growth step fails, the container is left
\* exactly as it was: same buffer, capacity, length and slot contents, the
\* old buffer not freed and the value not stored.
C11_FailedAllocationChangesNothing ==
    outcome = "bad_alloc"
    => /\ Me = pre
       /\ arr \in DOMAIN mem
       /\ frees[arr] = 0
       /\ ~grew

\* C11 witness: push on a full buffer of two ended in a failed allocation.
C11_Witness ==
    /\ lastOp = "push"
    /\ outcome = "bad_alloc"
    /\ pre.current = 2
    /\ pre.capacity = 2
    /\ Buf(pre)[1] = 510

C13_DestroyFreesExactlyOnce ==
    lastOp = "destroy"
    => /\ status = "destroyed"
       /\ DOMAIN mem = {}
       /\ \A b \in DOMAIN frees : frees[b] = 1

\* C14: getSize returns current, getCapacity returns capacity, and neither
\* changes the object or the heap.
C14_ObserversReturnFields ==
    /\ lastOp = "getSize" => lastRet = <<pre.current>> /\ Me = pre
    /\ lastOp = "getCapacity" => lastRet = <<pre.capacity>> /\ Me = pre

\* C14 witness: getSize returned 3 on a buffer of capacity 4.
C14_Witness ==
    /\ lastOp = "getSize"
    /\ lastRet = <<3>>
    /\ capacity = 4

\* C15: print reads exactly the slots 0 .. current-1, once each and in
\* increasing order, writes their contents in that order and changes nothing.
C15_PrintVisitsLiveSlots ==
    lastOp = "print"
    => /\ outcome = "ok"
       /\ Len(touched) = (IF pre.current > 0 THEN pre.current ELSE 0)
       /\ \A k \in 1 .. Len(touched) :
             /\ touched[k] = k - 1
             /\ touched[k] >= 0 /\ touched[k] < pre.current
       /\ Len(out) = Len(touched)
       /\ \A k \in 1 .. Len(out) : out[k] = Buf(pre)[k - 1]
       /\ Me = pre

\* C15 witness: print after push(55), push(510), push(55) wrote 55, 510, 55.
C15_Witness ==
    /\ lastOp = "print"
    /\ pure
    /\ appended = <<55, 510, 55>>
    /\ out = <<55, 510, 55>>
    /\ touched = <<0, 1, 2>>

\* C16: the constructed container has capacity 1 and current 0, and the
\* capacity is at least 1 in every state, also going into a growth step.
C16_CapacityAtLeastOne ==
    /\ lastOp = "construct" => capacity = 1 /\ current = 0
    /\ capacity >= 1
    /\ pre.capacity >= 1
    /\ grew => capacity >= 2

\* C16 witness: the first growth step doubled the capacity 1.
C16_Witness ==
    /\ grew
    /\ pre.capacity = 1
    /\ capacity = 2

\* C17: the condition of push(data, index) is true in every state and for
\* every index, so the call ends exactly as push(data) can end and never
\* takes the overwrite branch.
C17_PushAtAlwaysAppends ==
    /\ status = "alive"
       => \A index \in Indices : PushAtTest(index, capacity).taken
    /\ lastOp = "pushAt"
       => /\ PushAtTest(lastIdx, pre.capacity).taken
          /\ \E r \in PushOutcomes(pre, lastData) :
                r.s = Me /\ r.outcome = outcome

\* C17 witness: push(510, 0) on the two elements 55, 55 appended a third
\* element and left slot 0 alone.
C17_Witness ==
    /\ lastOp = "pushAt"
    /\ lastIdx = 0
    /\ lastData = 510
    /\ pre.current = 2
    /\ Buf(pre)[0] = 55
    /\ current = 3
    /\ Buf(Me)[0] = 55
    /\ Buf(Me)[2] = 510

\* C18: get returns -1 for every index in every state and changes nothing.
C18_GetAlwaysReturnsSentinel ==
    lastOp = "get" => lastRet = <<-1>> /\ outcome = "ok" /\ Me = pre

\* C19: pop ends in the same state whatever its argument, and changes only
\* current: capacity, buffer and slot contents stay.
C19_PopIgnoresArgument ==
    lastOp = "pop"
    => /\ \A x \in Values : PopStep(pre, x) = Me
       /\ capacity = pre.capacity
       /\ arr = pre.arr
       /\ mem = pre.mem
       /\ frees = pre.frees

\* C19 witness: pop(55) removed a last element 510.
C19_Witness ==
    /\ lastOp = "pop"
    /\ lastData = 55
    /\ pre.current = 2
    /\ Buf(pre)[1] = 510
    /\ current = 1

\* C20: while the object is alive exactly one buffer is allocated, the one
\* arr points to; every earlier buffer was freed exactly once, by the growth
\* step that had copied all its slots.
C20_OneLiveBuffer ==
    /\ status = "alive"
       => /\ DOMAIN mem = {arr}
          /\ frees[arr] = 0
          /\ \A b \in DOMAIN frees \ {arr} : frees[b] = 1
    /\ grew
       => /\ arr # pre.arr
          /\ pre.arr \notin DOMAIN mem
          /\ frees[pre.arr] = 1
          /\ copied = pre.capacity
          /\ \A i \in DOMAIN Buf(pre) : Buf(Me)[i] = Buf(pre)[i]

\* C20 witness: the third growth step: buffers 0, 1, 2 freed, buffer 3 live.
C20_Witness ==
    /\ status = "alive"
    /\ grew
    /\ DOMAIN frees = {0, 1, 2, 3}
    /\ arr = 3
    /\ capacity = 8

\* C21: over N appends to a fresh container and nothing else, the growth
\* steps copy fewer than 2N slots in total, and one append copies at most as
\* many slots as the container held.
C21_CopiesAreLinear ==
    /\ (pure /\ Len(appended) >= 1) => totalCopied < 2 * Len(appended)
    /\ (pure /\ lastOp = "push") => copied <= pre.current

\* C21 witness: five appends, growth steps at lengths 1, 2 and 4: 7 copies.
C21_Witness ==
    /\ pure
    /\ lastOp = "push"
    /\ Len(appended) = 5
    /\ copied = 4
    /\ totalCopied = 7

\* C22: the store arr[current] = data of push writes to an index within
\* 0 .. capacity-1 of the current buffer, in every state push is called in.
C22_PushStoresInsideBuffer ==
    (RanPush /\ Returned)
    => /\ Len(stored) = 1
       /\ \A k \in 1 .. Len(stored) :
             /\ 0 <= stored[k]
             /\ stored[k] < capacity
             /\ stored[k] \in DOMAIN Buf(Me)

\* C23: get(index) reads the buffer only at an index within 0 .. current-1,
\* and reads nothing when index is outside that range.
C23_GetReadsOnlyLiveSlots ==
    lastOp = "get"
    => /\ \A k \in 1 .. Len(touched) :
             0 <= touched[k] /\ touched[k] < pre.current
       /\ (lastIdx < 0 \/ lastIdx >= pre.current) => touched = <<>>

\* C24: a growth step copies as many slots as the container holds elements
\* (old capacity = current), and every slot it reads was assigned by an
\* earlier push.
C24_GrowthCopiesWrittenSlots ==
    grew
    => /\ copied = pre.capacity
       /\ copied = pre.current
       /\ \A i \in 0 .. copied - 1 :
             i \in DOMAIN Buf(pre) /\ Buf(pre)[i] # Uninit

\* C24 witness: a growth step from a full buffer of four, reached after a
\* pop below zero and the pushes that followed it.
C24_Witness ==
    /\ grew
    /\ corrupt
    /\ copied = 4
    /\ pre.current = 4
    /\ \A i \in 0 .. 3 : Buf(pre)[i] \in Values
====
